---- MODULE Spec2Model ----
(***************************************************************************)
(* The Isla interpreter (src/src/interpreter.js) as a state machine.       *)
(*                                                                         *)
(* JavaScript objects live in a heap of cells addressed by their index:    *)
(* the context (env.ctx), the type registry (ctx.types), the library's     *)
(* functions, every object and list a type_assignment creates and every    *)
(* reference object { ref: ... } an assignment stores.  A value is either  *)
(* a primitive or a pointer to a cell, so that identity, aliasing and      *)
(* in-place mutation are what they are in the program.                     *)
(*                                                                         *)
(* One step of the machine is one statement of the sequence runSequence    *)
(* folds over: rmRet, then interpretAst of the statement, whole.           *)
(***************************************************************************)
EXTENDS Integers, Sequences, FiniteSets, TLC

\* ------------------------------------------------------------------ bounds

\* Longest statement sequence a run executes.
MaxStmts == 3

\* ------------------------------------------------------------------ values

\* Every property name the model uses (identifiers, attribute names, type
\* names).  The context and every object are maps over these keys; a key
\* whose value is undefined is an absent property.
Keys == {"x", "y", "z", "a", "ref", "types", "generic", "list", "Widget",
         "write", "nothing", "_meta"}

\* A JavaScript value.  All values share one record shape.
\*   undefined | null | number | string | array [o, a] | the object
\*   { type: T } that instantiateType stores under _meta | pointer to a cell
Undef == [t |-> "undefined", n |-> 0, s |-> "", s2 |-> ""]
Null == [t |-> "null", n |-> 0, s |-> "", s2 |-> ""]
IntV(i) == [t |-> "number", n |-> i, s |-> "", s2 |-> ""]
StrV(str) == [t |-> "string", n |-> 0, s |-> str, s2 |-> ""]
PathV(o, a) == [t |-> "array", n |-> 0, s |-> o, s2 |-> a]
MetaV(T) == [t |-> "meta", n |-> 0, s |-> T, s2 |-> ""]
PtrV(p) == [t |-> "ptr", n |-> p, s |-> "", s2 |-> ""]

\* A heap cell: a plain object, an IslaList (items in order) or a function
\* (fn names its native code).  Every cell is a JavaScript object and so
\* carries properties.
NoAttrs == [k \in Keys |-> Undef]
ObjectCell(attrs) == [kind |-> "Object", attrs |-> attrs, items |-> <<>>, fn |-> ""]
ListCell(items) == [kind |-> "IslaList", attrs |-> NoAttrs, items |-> items, fn |-> ""]
FunctionCell(f) == [kind |-> "Function", attrs |-> NoAttrs, items |-> <<>>, fn |-> f]

\* The object literal { ref: r } of value_assignment and list_assignment.
RefCell(r) == ObjectCell([NoAttrs EXCEPT !["ref"] = r])

IsPtr(v) == v.t = "ptr"

\* Isla.Utils.type(thing): the class name of a value.
UtilsType(h, v) ==
  CASE v.t = "ptr" -> h[v.n].kind
    [] v.t = "meta" -> "Object"
    [] v.t = "array" -> "Array"
    [] v.t = "number" -> "Number"
    [] v.t = "string" -> "String"
    [] v.t = "null" -> "Null"
    [] OTHER -> "Undefined"

\* The decimal digits of a natural number.
RECURSIVE NatToString(_)
NatToString(i) ==
  LET digit == <<"0", "1", "2", "3", "4", "5", "6", "7", "8", "9">>[(i % 10) + 1]
  IN IF i < 10 THEN digit ELSE NatToString(i \div 10) \o digit

\* JavaScript's conversion of a value used as a property key: a string is
\* itself, an array is its elements joined by a comma, a number its digits,
\* an object "[object Object]".
PropertyKey(v) ==
  CASE v.t = "string" -> v.s
    [] v.t = "array" -> v.s \o "," \o v.s2
    [] v.t = "number" -> NatToString(v.n)
    [] v.t = "undefined" -> "undefined"
    [] v.t = "null" -> "null"
    [] OTHER -> "[object Object]"

\* thing[key] for a value that is not undefined: a cell's property; a
\* primitive has none of the properties the model's keys name.
GetProp(h, v, key) ==
  IF IsPtr(v) /\ key \in Keys THEN h[v.n].attrs[key] ELSE Undef

\* env.ctx[key]
CtxGet(h, c, key) == GetProp(h, PtrV(c), key)

\* thing[key] = value on a cell.
SetProp(h, p, key, value) == [h EXCEPT ![p].attrs[key] = value]

\* ------------------------------------------------------------------- nodes

\* The nodes of the abstract syntax tree the evaluator reads: a value node
\* (literal | scalar | object) and an assignee (scalar | object).
Literal(v) == [tag |-> "literal", id |-> "", attr |-> "", lit |-> v]
Scalar(id) == [tag |-> "scalar", id |-> id, attr |-> "", lit |-> Undef]
Object(o, a) == [tag |-> "object", id |-> o, attr |-> a, lit |-> Undef]
NoNode == [tag |-> "none", id |-> "", attr |-> "", lit |-> Undef]

\* ------------------------------------------------------- value resolution

\* evaluateValue(node, env): { ref, val } of a value node.  A literal has no
\* ref; a scalar reads ctx[identifier]; an object reads ctx[objId][attrId]
\* when both levels are defined.
EvaluateValue(node, h, c) ==
  CASE node.tag = "literal" -> [ref |-> Undef, val |-> node.lit]
    [] node.tag = "scalar" ->
         [ref |-> StrV(node.id), val |-> CtxGet(h, c, node.id)]
    [] OTHER ->
         [ref |-> PathV(node.id, node.attr),
          val |-> IF CtxGet(h, c, node.id) # Undef
                     /\ GetProp(h, CtxGet(h, c, node.id), node.attr) # Undef
                  THEN GetProp(h, CtxGet(h, c, node.id), node.attr)
                  ELSE Undef]

\* The dispatch of resolve: "list" for an IslaList, "ref" for an Object
\* with a ref property, "object" for any other Object, else the default.
ResolveDispatch(h, thing) ==
  IF IsPtr(thing) /\ h[thing.n].kind = "IslaList" THEN "list"
  ELSE IF UtilsType(h, thing) = "Object"
       THEN IF GetProp(h, thing, "ref") = Undef THEN "object" ELSE "ref"
       ELSE "default"

\* The order in which for (var i in thing) visits the properties.
KeyOrder == <<"x", "y", "z", "a", "ref", "types", "generic", "list", "Widget",
              "write", "nothing", "_meta">>

\* resolve(thing, env).  The result is [val, heap, ok]: the value returned,
\* the heap it leaves (an object's properties are overwritten in place, a
\* list is copied into a fresh IslaList) and ok = FALSE when the recursion
\* never ends (a chain of references that leads back to itself), which the
\* fuel detects: a recursion deeper than every cell visited twice repeats.
RECURSIVE Resolve(_, _, _, _)
RECURSIVE ResolveObject(_, _, _, _, _)
RECURSIVE ResolveList(_, _, _, _, _, _)

\* .when("ref"): resolve(env.ctx[thing.ref], env)
ResolveRef(ref, h, c, fuel) ==
  Resolve(CtxGet(h, c, PropertyKey(ref)), h, c, fuel)

\* .when("object"): thing[i] = resolve(thing[i], env) for each i # "_meta",
\* from the k-th property on.
ResolveObject(p, k, h, c, fuel) ==
  IF k > Len(KeyOrder) THEN [val |-> PtrV(p), heap |-> h, ok |-> TRUE]
  ELSE LET i == KeyOrder[k]
       IN IF i = "_meta" \/ h[p].attrs[i] = Undef
          THEN ResolveObject(p, k + 1, h, c, fuel)
          ELSE LET r == Resolve(h[p].attrs[i], h, c, fuel)
               IN IF ~r.ok THEN [val |-> Undef, heap |-> r.heap, ok |-> FALSE]
                  ELSE ResolveObject(p, k + 1, SetProp(r.heap, p, i, r.val),
                                     c, fuel)

\* .when("list"): resolvedList.add(resolve(items[i], env)) from item k on;
\* q is the fresh list.
ResolveList(items, k, q, h, c, fuel) ==
  IF k > Len(items) THEN [val |-> PtrV(q), heap |-> h, ok |-> TRUE]
  ELSE LET r == Resolve(items[k], h, c, fuel)
       IN IF ~r.ok THEN [val |-> Undef, heap |-> r.heap, ok |-> FALSE]
          ELSE ResolveList(items, k + 1, q,
                           [r.heap EXCEPT ![q].items = Append(@, r.val)],
                           c, fuel)

\* Mutant of Resolve: a list is resolved in place, as an object is.
ResolveListInPlace(thing, h, c, fuel) ==
  IF fuel = 0 THEN [val |-> Undef, heap |-> h, ok |-> FALSE]
  ELSE LET d == ResolveDispatch(h, thing)
       IN CASE d = "ref" ->
                 ResolveRef(GetProp(h, thing, "ref"), h, c, fuel - 1)
            [] d = "object" /\ IsPtr(thing) ->
                 ResolveObject(thing.n, 1, h, c, fuel - 1)
            [] d = "list" ->
                 ResolveList(h[thing.n].items, 1, thing.n,
                             [h EXCEPT ![thing.n].items = <<>>], c, fuel - 1)
            [] OTHER -> [val |-> thing, heap |-> h, ok |-> TRUE]

Resolve(thing, h, c, fuel) ==
  IF fuel = 0 THEN [val |-> Undef, heap |-> h, ok |-> FALSE]
  ELSE LET d == ResolveDispatch(h, thing)
       IN CASE d = "ref" ->
                 ResolveRef(GetProp(h, thing, "ref"), h, c, fuel - 1)
            [] d = "object" /\ IsPtr(thing) ->
                 ResolveObject(thing.n, 1, h, c, fuel - 1)
            [] d = "list" ->
                 ResolveList(h[thing.n].items, 1, Len(h) + 1,
                             Append(h, ListCell(<<>>)), c, fuel - 1)
            [] OTHER -> [val |-> thing, heap |-> h, ok |-> TRUE]

\* Enough fuel for every recursion that ends: it enters no cell twice.
Fuel(h) == 2 * Len(h) + 2

\* -------------------------------------------------------------- assignment

\* Mutant of Assign: a scalar that is already bound keeps its binding.
AssignOnce(h, c, assignee, value) ==
  IF assignee.tag = "scalar"
  THEN [ctx |-> c,
        heap |-> IF CtxGet(h, c, assignee.id) = Undef
                 THEN SetProp(h, c, assignee.id, value) ELSE h,
        ok |-> TRUE]
  ELSE LET base == CtxGet(h, c, assignee.id)
       IN IF base = Undef THEN [ctx |-> c, heap |-> h, ok |-> FALSE]
          ELSE IF IsPtr(base)
               THEN [ctx |-> c,
                     heap |-> SetProp(h, base.n, assignee.attr, value),
                     ok |-> TRUE]
               ELSE [ctx |-> c, heap |-> h, ok |-> TRUE]

\* Mutant of Assign: a path whose object is unbound binds the object to a
\* new empty object and sets the attribute on it.
AssignMakesObject(h, c, assignee, value) ==
  IF assignee.tag = "scalar"
  THEN [ctx |-> c, heap |-> SetProp(h, c, assignee.id, value), ok |-> TRUE]
  ELSE LET base == CtxGet(h, c, assignee.id)
           made == Append(h, ObjectCell([NoAttrs EXCEPT ![assignee.attr] = value]))
       IN IF base = Undef
          THEN [ctx |-> c,
                heap |-> SetProp(made, c, assignee.id, PtrV(Len(made))),
                ok |-> TRUE]
          ELSE IF IsPtr(base)
               THEN [ctx |-> c,
                     heap |-> SetProp(h, base.n, assignee.attr, value),
                     ok |-> TRUE]
               ELSE [ctx |-> c, heap |-> h, ok |-> TRUE]

\* assign(ctx, assigneeNode, value): [ctx, heap, ok], ctx the context it
\* returns.  scalar: ctx[identifier] =
\* value.  object: ctx[objectIdentifier][slotIdentifier] = value, which
\* throws a TypeError when ctx[objectIdentifier] is undefined, and stores
\* nothing when it is a number or a string.
Assign(h, c, assignee, value) ==
  IF assignee.tag = "scalar"
  THEN [ctx |-> c, heap |-> SetProp(h, c, assignee.id, value), ok |-> TRUE]
  ELSE LET base == CtxGet(h, c, assignee.id)
       IN IF base = Undef THEN [ctx |-> c, heap |-> h, ok |-> FALSE]
          ELSE IF IsPtr(base)
               THEN [ctx |-> c,
                     heap |-> SetProp(h, base.n, assignee.attr, value),
                     ok |-> TRUE]
               ELSE [ctx |-> c, heap |-> h, ok |-> TRUE]

\* Mutant of StoredValue: the value read is stored, not a reference.
StoredValueRead(vn, h) == [val |-> vn.val, heap |-> h]

\* Mutant of StoredValue: a variable's value is resolved when it is assigned
\* and the snapshot is stored.
StoredValueResolved(vn, h) ==
  IF vn.ref = Undef THEN [val |-> vn.val, heap |-> h]
  ELSE [val |-> Resolve(vn.val, h, 1, Fuel(h)).val,
        heap |-> Resolve(vn.val, h, 1, Fuel(h)).heap]

\* Mutant of StoredValue: a variable that holds a reference is assigned as a
\* copy of that reference, so that no reference points at a reference.
StoredValueFlat(vn, h) ==
  IF vn.ref = Undef THEN [val |-> vn.val, heap |-> h]
  ELSE IF ResolveDispatch(h, vn.val) = "ref"
       THEN [val |-> PtrV(Len(h) + 1),
             heap |-> Append(h, RefCell(GetProp(h, vn.val, "ref")))]
       ELSE [val |-> PtrV(Len(h) + 1), heap |-> Append(h, RefCell(vn.ref))]

\* value = valueNode.ref === undefined ? valueNode.val : { ref: valueNode.ref }
\* [val, heap]: a reference is a fresh object on the heap.
StoredValue(vn, h) ==
  IF vn.ref = Undef THEN [val |-> vn.val, heap |-> h]
  ELSE [val |-> PtrV(Len(h) + 1), heap |-> Append(h, RefCell(vn.ref))]

\* Mutant of RmRet: ret is left as the statement before set it.
RmRetKeeps(e) == e

\* rmRet(env)
RmRet(e) == [e EXCEPT !.ret = Null]

\* Mutant of NReturn: undefined is not replaced by null.
NReturnRaw(c, ret) == [ctx |-> c, ret |-> ret]

\* nreturn(ctx, ret)
NReturn(c, ret) ==
  IF ret = Undef THEN [ctx |-> c, ret |-> Null] ELSE [ctx |-> c, ret |-> ret]

\* --------------------------------------------------------------- library

\* The constructors of the type registry: generic makes a fresh object,
\* list a fresh IslaList.  ok = FALSE when the function called is not a
\* constructor and returns no object.
NativeConstruct(f) ==
  CASE f = "generic" -> [cell |-> ObjectCell(NoAttrs), ok |-> TRUE]
    [] f = "list" -> [cell |-> ListCell(<<>>), ok |-> TRUE]
    [] OTHER -> [cell |-> ObjectCell(NoAttrs), ok |-> FALSE]

\* list[operation](item).  An IslaList has add, which appends; any other
\* value has no such method and the call throws a TypeError.
ListOperation(h, list, operation, item) ==
  IF IsPtr(list) /\ h[list.n].kind = "IslaList" /\ operation = "add"
  THEN [heap |-> [h EXCEPT ![list.n].items = Append(@, item)], ok |-> TRUE]
  ELSE [heap |-> h, ok |-> FALSE]

\* fn(env, param) for the library's functions: write resolves its argument
\* through the interpreter's public resolve and returns it; nothing
\* returns undefined.  [ret, heap, err]
CallNative(f, e, param, h) ==
  CASE f = "write" ->
         LET r == Resolve(param, h, e.ctx, Fuel(h))
         IN [ret |-> r.val, heap |-> r.heap,
             err |-> IF r.ok THEN "" ELSE "RangeError"]
    [] f = "nothing" -> [ret |-> Undef, heap |-> h, err |-> ""]
    [] OTHER -> [ret |-> Undef, heap |-> h, err |-> "TypeError"]

\* -------------------------------------------------------------- statements
\* interpretAst of each statement kind: [env, heap, err], err = "" when the
\* statement returns and the thrown error otherwise (env is then the
\* environment the statement was given).

\* instantiateType(typeFn, identifier): [val, heap, ok]
InstantiateType(typeFn, identifier, h) ==
  IF IsPtr(typeFn) /\ h[typeFn.n].kind = "Function"
     /\ NativeConstruct(h[typeFn.n].fn).ok
  THEN [val |-> PtrV(Len(h) + 1),
        heap |-> Append(h, [NativeConstruct(h[typeFn.n].fn).cell
                            EXCEPT !.attrs["_meta"] = MetaV(identifier)]),
        ok |-> TRUE]
  ELSE [val |-> Undef, heap |-> h, ok |-> FALSE]

\* Mutant of NoSuchList: a path is not rendered as "obj attr".
NoSuchListBare(ref) == "I do not know of a list called " \o ref.s \o "."

\* "I do not know of a list called " + name + ".", name being
\* ref[0] + " " + ref[1] for an array and ref otherwise.
NoSuchList(ref) ==
  "I do not know of a list called "
  \o (IF ref.t = "array" THEN ref.s \o " " \o ref.s2 ELSE ref.s)
  \o "."

\* .when("value_assignment")
ValueAssignmentStmt(e, h, assignee, valueNode) ==
  LET vn == EvaluateValue(valueNode, h, e.ctx)
      sv == StoredValue(vn, h)
      a == Assign(sv.heap, e.ctx, assignee, sv.val)
  IN IF a.ok THEN [env |-> NReturn(a.ctx, Undef), heap |-> a.heap, err |-> ""]
     ELSE [env |-> e, heap |-> sv.heap, err |-> "TypeError"]

\* .when("type_assignment")
TypeAssignmentStmt(e, h, assignee, typeIdentifier) ==
  LET types == CtxGet(h, e.ctx, "types")
      found == GetProp(h, types, typeIdentifier)
      typeFn == IF found = Undef THEN GetProp(h, types, "generic") ELSE found
      v == InstantiateType(typeFn, typeIdentifier, h)
      a == Assign(v.heap, e.ctx, assignee, v.val)
  IN IF types = Undef \/ ~v.ok THEN [env |-> e, heap |-> h, err |-> "TypeError"]
     ELSE IF a.ok
          THEN [env |-> NReturn(a.ctx, Undef), heap |-> a.heap, err |-> ""]
          ELSE [env |-> e, heap |-> v.heap, err |-> "TypeError"]

\* .when("list_assignment")
ListAssignmentStmt(e, h, operation, itemNode, assignee) ==
  LET currentListEval == EvaluateValue(assignee, h, e.ctx)
      item == StoredValue(EvaluateValue(itemNode, h, e.ctx), h)
      done == ListOperation(item.heap, currentListEval.val, operation, item.val)
      a == Assign(done.heap, e.ctx, assignee, currentListEval.val)
  IN IF currentListEval.val = Undef
     THEN [env |-> e, heap |-> h, err |-> NoSuchList(currentListEval.ref)]
     ELSE IF ~done.ok THEN [env |-> e, heap |-> item.heap, err |-> "TypeError"]
     ELSE IF a.ok
          THEN [env |-> NReturn(a.ctx, Undef), heap |-> a.heap, err |-> ""]
          ELSE [env |-> e, heap |-> done.heap, err |-> "TypeError"]

\* Mutant of InvocationStmt: the argument is resolved before the call.
InvocationResolved(e, h, fnId, paramNode) ==
  LET fn == ResolveRef(StrV(fnId), h, e.ctx, Fuel(h))
      arg == Resolve(EvaluateValue(paramNode, fn.heap, e.ctx).val, fn.heap,
                     e.ctx, Fuel(fn.heap))
      callable == IsPtr(fn.val) /\ fn.heap[fn.val.n].kind = "Function"
      call == CallNative(fn.heap[fn.val.n].fn, e, arg.val, arg.heap)
  IN IF ~fn.ok \/ ~arg.ok
     THEN [env |-> e, heap |-> fn.heap, err |-> "RangeError",
           returnVal |-> Undef, param |-> Undef]
     ELSE IF ~callable
     THEN [env |-> e, heap |-> fn.heap, err |-> "TypeError",
           returnVal |-> Undef, param |-> Undef]
     ELSE IF call.err # ""
     THEN [env |-> e, heap |-> call.heap, err |-> call.err,
           returnVal |-> Undef, param |-> arg.val]
     ELSE [env |-> NReturn(e.ctx, call.ret), heap |-> call.heap, err |-> "",
           returnVal |-> call.ret, param |-> arg.val]

\* .when("invocation"): [env, heap, err, returnVal, param], param the
\* argument fn was called with.
InvocationStmt(e, h, fnId, paramNode) ==
  LET fn == ResolveRef(StrV(fnId), h, e.ctx, Fuel(h))
      param == EvaluateValue(paramNode, fn.heap, e.ctx).val
      callable == IsPtr(fn.val) /\ fn.heap[fn.val.n].kind = "Function"
      call == CallNative(fn.heap[fn.val.n].fn, e, param, fn.heap)
  IN IF ~fn.ok
     THEN [env |-> e, heap |-> fn.heap, err |-> "RangeError",
           returnVal |-> Undef, param |-> Undef]
     ELSE IF ~callable
     THEN [env |-> e, heap |-> fn.heap, err |-> "TypeError",
           returnVal |-> Undef, param |-> Undef]
     ELSE IF call.err # ""
     THEN [env |-> e, heap |-> call.heap, err |-> call.err,
           returnVal |-> Undef, param |-> param]
     ELSE [env |-> NReturn(e.ctx, call.ret), heap |-> call.heap, err |-> "",
           returnVal |-> call.ret, param |-> param]

\* ------------------------------------------------------------------- state

VARIABLES
  env,    \* the environment { ctx, ret } runSequence is carrying
  heap,   \* the cells, by address
  pc,     \* "start" | "running" | "done" (returned) | "error" (threw)
  err,    \* the error thrown, "" when none
  steps,  \* statements executed
  env0,   \* the environment the caller passed in
  last,   \* history: the statement executed last and what it saw
  alias   \* history: the variables assigned from a variable and not since

vars == <<env, heap, pc, err, steps, env0, last, alias>>

\* The initial environment of Isla.Library.getInitialEnv(): the context
\* holds the type registry and the library's functions.
CtxAddr == 1
InitialHeap ==
  << ObjectCell([NoAttrs EXCEPT !["types"] = PtrV(2), !["write"] = PtrV(5),
                                !["nothing"] = PtrV(6)]),
     ObjectCell([NoAttrs EXCEPT !["generic"] = PtrV(3), !["list"] = PtrV(4)]),
     FunctionCell("generic"), FunctionCell("list"),
     FunctionCell("write"), FunctionCell("nothing") >>

\* The variables whose aliasing the history follows.
Variables == {"x", "y", "z"}
NoAlias == [src |-> "", attr |-> "", was |-> Undef]
NoStmt ==
  [tag |-> "none", assignee |-> NoNode, node |-> NoNode, name |-> "",
   seen |-> Null, prev |-> Null, returnVal |-> Undef, param |-> Undef,
   before |-> <<>>]

\* The values a caller's environment may hold in ret: null, or what an
\* earlier run's last invocation returned.
InitialRets == {Null, IntV(7)}

Init ==
  /\ env0 \in {[ctx |-> CtxAddr, ret |-> r] : r \in InitialRets}
  /\ env = env0
  /\ heap = InitialHeap
  /\ pc = "start"
  /\ err = ""
  /\ steps = 0
  /\ last = NoStmt
  /\ alias = [k \in Variables |-> NoAlias]

\* History of aliases after statement l returned: a value_assignment of
\* scalar y from another variable or an attribute read records y's source
\* and what the source held; any other value_assignment or type_assignment
\* to y, or to an attribute of y, ends y's record.
AliasAfter(l, h) ==
  IF l.tag \notin {"value_assignment", "type_assignment"} THEN alias
  ELSE [k \in Variables |->
         IF k # l.assignee.id THEN alias[k]
         ELSE IF l.tag = "value_assignment" /\ l.assignee.tag = "scalar"
                 /\ l.node.tag # "literal" /\ l.node.id # k
              THEN [src |-> l.node.id, attr |-> l.node.attr,
                    was |-> EvaluateValue(l.node, h, env.ctx).val]
              ELSE NoAlias]

\* One statement of runSequence has been evaluated with result r.
Executed(r, l) ==
  /\ env' = r.env
  /\ heap' = r.heap
  /\ err' = r.err
  /\ pc' = IF r.err = "" THEN "running" ELSE "error"
  /\ steps' = steps + 1
  /\ last' = l
  /\ alias' = IF r.err = "" THEN AliasAfter(l, heap) ELSE alias
  /\ UNCHANGED env0

\* runSequence has a next statement to evaluate.
MoreNodes == pc \in {"start", "running"} /\ steps < MaxStmts

\* runSequence on a value_assignment: interpretAst(first, rmRet(env)).
ValueAssignment(assignee, valueNode) ==
  /\ MoreNodes
  /\ LET e == RmRet(env)
     IN Executed(ValueAssignmentStmt(e, heap, assignee, valueNode),
                 [tag |-> "value_assignment", assignee |-> assignee,
                  node |-> valueNode, name |-> "", seen |-> e.ret,
                  prev |-> env.ret, returnVal |-> Undef, param |-> Undef,
                  before |-> heap])

\* runSequence on a type_assignment.
TypeAssignment(assignee, typeIdentifier) ==
  /\ MoreNodes
  /\ LET e == RmRet(env)
     IN Executed(TypeAssignmentStmt(e, heap, assignee, typeIdentifier),
                 [tag |-> "type_assignment", assignee |-> assignee,
                  node |-> NoNode, name |-> typeIdentifier, seen |-> e.ret,
                  prev |-> env.ret, returnVal |-> Undef, param |-> Undef,
                  before |-> heap])

\* runSequence on a list_assignment.
ListAssignment(operation, itemNode, assignee) ==
  /\ MoreNodes
  /\ LET e == RmRet(env)
     IN Executed(ListAssignmentStmt(e, heap, operation, itemNode, assignee),
                 [tag |-> "list_assignment", assignee |-> assignee,
                  node |-> itemNode, name |-> operation, seen |-> e.ret,
                  prev |-> env.ret, returnVal |-> Undef, param |-> Undef,
                  before |-> heap])

\* runSequence on an invocation.
Invocation(fnId, paramNode) ==
  /\ MoreNodes
  /\ LET e == RmRet(env)
         r == InvocationStmt(e, heap, fnId, paramNode)
     IN Executed(r,
                 [tag |-> "invocation", assignee |-> NoNode,
                  node |-> paramNode, name |-> fnId, seen |-> e.ret,
                  prev |-> env.ret, returnVal |-> r.returnVal,
                  param |-> r.param, before |-> heap])

\* Mutant of Return: the empty case clears ret as the other case does.
ReturnCleared ==
  /\ pc \in {"start", "running"}
  /\ pc' = "done"
  /\ env' = [env EXCEPT !.ret = Null]
  /\ UNCHANGED <<heap, err, steps, env0, last, alias>>

\* runSequence with no node left: return env.
Return ==
  /\ pc \in {"start", "running"}
  /\ pc' = "done"
  /\ UNCHANGED <<env, heap, err, steps, env0, last, alias>>

\* ------------------------------------------------------------- programs

\* The statement sequences of Spec: assignments of literals and variables,
\* type assignments, a list operation, and invocations of the library's
\* functions by name or through a variable assigned from one.
SeqAssignees == {Scalar("x"), Scalar("y")}
SeqValues == {Literal(IntV(5)), Scalar("x"), Scalar("write")}
SeqTypes == {"list", "Widget"}
SeqFunctions == {"write", "nothing", "x", "y"}
SeqParams == {Literal(IntV(5)), Scalar("x")}

Next ==
  \/ \E assignee \in SeqAssignees, valueNode \in SeqValues :
       ValueAssignment(assignee, valueNode)
  \/ \E assignee \in SeqAssignees, T \in SeqTypes :
       TypeAssignment(assignee, T)
  \/ \E itemNode \in SeqParams :
       ListAssignment("add", itemNode, Scalar("x"))
  \/ \E f \in SeqFunctions, paramNode \in SeqParams :
       Invocation(f, paramNode)
  \/ Return

Spec == Init /\ [][Next]_vars

\* --------------------------------------------------------------- sequencer

IsAssignment(l) ==
  l.tag \in {"value_assignment", "type_assignment", "list_assignment"}

\* C1: every statement of a sequence is evaluated against an environment
\* whose ret is null, whatever the statement before it returned and
\* whatever ret the caller's environment held.
C1_RetSeenIsNull == steps >= 1 => last.seen = Null

\* A statement ran after an invocation that returned a value.
C1_Witness ==
  /\ steps >= 2
  /\ last.prev \notin {Null, Undef}
  /\ last.seen = Null

\* C2 as claimed: an empty sequence returns the caller's context with
\* ret = null, also when the caller's ret was not null.
C2_EmptyReturnsNullRet ==
  (pc = "done" /\ steps = 0) => (env.ctx = env0.ctx /\ env.ret = Null)

\* C2 as amended: an empty sequence returns the caller's environment as it
\* is: the same context, no binding changed, and the ret it came with.
C2_EmptyReturnsEnv ==
  (pc = "done" /\ steps = 0) => (env = env0 /\ heap = InitialHeap)

\* An empty sequence returned an environment whose ret is not null.
C2_Witness == pc = "done" /\ steps = 0 /\ env0.ret # Null

\* C3: after a non-empty sequence ret is the last statement's alone (the
\* last invocation's result, null in place of undefined, and null after an
\* assignment), and the context is the caller's, mutated in place: the
\* binding the last assignment wrote is read through the caller's context.
C3_LastStatementDecides ==
  (steps >= 1 /\ pc \in {"running", "done"}) =>
    /\ env.ctx = env0.ctx
    /\ IsAssignment(last) => env.ret = Null
    /\ last.tag = "invocation" =>
         env.ret = (IF last.returnVal = Undef THEN Null ELSE last.returnVal)
    /\ (last.tag = "value_assignment" /\ last.assignee.tag = "scalar"
        /\ last.node.tag = "literal") =>
         CtxGet(heap, env0.ctx, last.assignee.id) = last.node.lit

\* An assignment ran after an invocation that returned a value, and the
\* sequence returned.
C3_Witness ==
  /\ pc = "done"
  /\ steps >= 2
  /\ last.tag = "value_assignment"
  /\ last.prev \notin {Null, Undef}
  /\ env.ret = Null

\* -------------------------------------------------------------- assignment

\* The statement sequences of SpecAssign: value assignments of literals,
\* variables and attribute reads to variables and to an attribute, over
\* variables that type assignments bind to objects and lists.
AssignAssignees == {Scalar("x"), Scalar("y"), Object("x", "a")}
AssignValues ==
  {Literal(IntV(5)), Literal(IntV(6)), Scalar("x"), Scalar("y"),
   Object("x", "a")}
AssignTypes == {"list", "Widget"}

NextAssign ==
  \/ \E assignee \in AssignAssignees, valueNode \in AssignValues :
       ValueAssignment(assignee, valueNode)
  \/ \E assignee \in {Scalar("x"), Scalar("y")}, T \in AssignTypes :
       TypeAssignment(assignee, T)
  \/ Return

SpecAssign == Init /\ [][NextAssign]_vars

\* The last statement was a value_assignment that returned.
ValueAssigned == last.tag = "value_assignment" /\ pc # "error" /\ steps >= 1

\* The value now stored at the last statement's assignee.
Slot == EvaluateValue(last.assignee, heap, env.ctx).val

\* C4: after a value_assignment of a literal v to a scalar name, bound or
\* not before, a scalar read of the name returns val = v.
C4_ScalarOverwrite ==
  (ValueAssigned /\ last.assignee.tag = "scalar" /\ last.node.tag = "literal")
    => EvaluateValue(Scalar(last.assignee.id), heap, env.ctx).val = last.node.lit

\* A literal overwrote a scalar that was bound to something else.
C4_Witness ==
  /\ ValueAssigned /\ last.assignee.tag = "scalar" /\ last.node.tag = "literal"
  /\ CtxGet(last.before, env.ctx, last.assignee.id) \notin {Undef, last.node.lit}
  /\ CtxGet(heap, env.ctx, last.assignee.id) = last.node.lit

\* C5: a value_assignment to a variable, or to an attribute of an object,
\* stores the literal's value when the right-hand side is a literal and a
\* fresh reference { ref: name } or { ref: [o, a] }, never the value read,
\* when it is a variable or an attribute read, whatever that holds; it
\* returns the same ctx and ret = null.
C5_ValueOrReference ==
  (ValueAssigned
   /\ (last.assignee.tag = "scalar"
       \/ IsPtr(CtxGet(last.before, env.ctx, last.assignee.id)))) =>
    /\ env.ret = Null
    /\ env.ctx = env0.ctx
    /\ last.node.tag = "literal" => Slot = last.node.lit
    /\ last.node.tag # "literal" =>
         /\ IsPtr(Slot)
         /\ Slot.n > Len(last.before)
         /\ heap[Slot.n] = RefCell(EvaluateValue(last.node, last.before,
                                                 env.ctx).ref)
         /\ Slot # EvaluateValue(last.node, last.before, env.ctx).val

\* A variable was assigned from a variable bound to an object or a list,
\* and from a variable that holds a reference.
C5_Witness ==
  /\ ValueAssigned /\ last.node.tag = "scalar"
  /\ LET held == CtxGet(last.before, env.ctx, last.node.id)
     IN IsPtr(held) /\ last.before[held.n].attrs["ref"] # Undef
  /\ heap[Slot.n].attrs["ref"] = StrV(last.node.id)

\* C7 as claimed: after x := 5; y := x the slot of y holds the scalar 5
\* itself, not a reference.
C7_ScalarCopy ==
  (ValueAssigned /\ last.assignee = Scalar("y") /\ last.node = Scalar("x")
   /\ CtxGet(last.before, env.ctx, "x") = IntV(5))
    => CtxGet(heap, env.ctx, "y") = IntV(5)

\* The value resolve returns for the binding of variable k.
Resolved(k) ==
  Resolve(CtxGet(heap, env.ctx, k), heap, env.ctx, Fuel(heap)).val

\* C7 as amended: after x := 5; y := x, reading x yields 5 and resolving y
\* yields 5, but the slot of y holds a reference to x and not the scalar:
\* until y is assigned again, y resolves to the scalar x holds now, also
\* after x was reassigned.
C7_ScalarAlias ==
  \A k \in Variables :
    (alias[k].src # "" /\ alias[k].attr = "" /\ alias[k].was.t = "number"
     /\ CtxGet(heap, env.ctx, alias[k].src).t = "number") =>
      /\ IsPtr(CtxGet(heap, env.ctx, k))
      /\ GetProp(heap, CtxGet(heap, env.ctx, k), "ref") = StrV(alias[k].src)
      /\ Resolved(k) = CtxGet(heap, env.ctx, alias[k].src)

\* x := 5; y := x; x := 6 ran, and y resolves to 6.
C7_Witness ==
  /\ alias["y"] = [src |-> "x", attr |-> "", was |-> IntV(5)]
  /\ CtxGet(heap, env.ctx, "x") = IntV(6)
  /\ Resolved("y") = IntV(6)

\* ---------------------------------------------------------------- aliasing

\* The caller's context of SpecAlias: the library's, or the one an earlier
\* run of "z is a list" left.
HeapWithList ==
  TypeAssignmentStmt([ctx |-> CtxAddr, ret |-> Null], InitialHeap,
                     Scalar("z"), "list").heap

InitAlias ==
  /\ env0 = [ctx |-> CtxAddr, ret |-> Null]
  /\ env = env0
  /\ heap \in {InitialHeap, HeapWithList}
  /\ pc = "start"
  /\ err = ""
  /\ steps = 0
  /\ last = NoStmt
  /\ alias = [k \in Variables |-> NoAlias]

\* The statement sequences of SpecAlias: objects and lists, variables
\* assigned from variables and from attribute reads, list operations on a
\* list, on its alias and on unbound names, and write, which resolves.
AliasAssignees == {Scalar("x"), Scalar("y"), Object("x", "a"), Object("y", "ref")}
AliasValues == {Literal(IntV(5)), Scalar("x"), Scalar("z"), Object("x", "a")}
AliasListTargets == {Scalar("x"), Scalar("y"), Scalar("z"), Object("x", "a")}
AliasItems == {Literal(IntV(6)), Scalar("x")}

NextAlias ==
  \/ \E assignee \in AliasAssignees, valueNode \in AliasValues :
       ValueAssignment(assignee, valueNode)
  \/ \E T \in {"list", "Widget"} :
       TypeAssignment(Scalar("x"), T)
  \/ \E itemNode \in AliasItems, assignee \in AliasListTargets :
       ListAssignment("add", itemNode, assignee)
  \/ \E paramNode \in {Scalar("x"), Scalar("y")} :
       Invocation("write", paramNode)
  \/ Return

SpecAlias == InitAlias /\ [][NextAlias]_vars

\* resolve applied to the binding of variable k: [val, heap, ok]
ResolveBinding(k) ==
  Resolve(CtxGet(heap, env.ctx, k), heap, env.ctx, Fuel(heap))

\* Variable k resolves to an object or a list.
IsCompound(k) ==
  /\ ResolveBinding(k).ok
  /\ IsPtr(ResolveBinding(k).val)
  /\ ResolveBinding(k).heap[ResolveBinding(k).val.n].kind
       \in {"Object", "IslaList"}

\* C6: once y is assigned from variable x, then in every state until y, or
\* an attribute of y, is assigned again, and whatever is done to x and to
\* what x resolves to, resolve applied to y's binding yields what resolve
\* applied to x's binding yields, whenever that is an object or a list: the
\* same object, or a list of the same items.
C6_AliasingLaw ==
  \A k \in Variables :
    (alias[k].src # "" /\ alias[k].attr = "" /\ IsCompound(alias[k].src))
      => ResolveBinding(k) = ResolveBinding(alias[k].src)

\* y was assigned from x, then a list operation on x added an item, and y
\* resolves to a list that holds it.
C6_Witness ==
  /\ alias["y"].src = "x" /\ alias["y"].attr = ""
  /\ last.tag = "list_assignment" /\ last.assignee = Scalar("x")
  /\ pc = "running"
  /\ ResolveBinding("y").ok
  /\ ResolveBinding("y").heap[ResolveBinding("y").val.n].items = <<IntV(6)>>

\* C8: after x is bound to a list and y assigned from x, a list_assignment
\* that adds an item to y returns and appends the item to the list of x.
C8_AddThroughAlias ==
  (/\ last.tag = "list_assignment" /\ last.name = "add"
   /\ last.node.tag = "literal"
   /\ last.assignee.tag = "scalar" /\ last.assignee.id \in Variables
   /\ LET y == alias[last.assignee.id]
      IN /\ y.src # "" /\ y.attr = ""
         /\ IsPtr(y.was) /\ last.before[y.was.n].kind = "IslaList"
         /\ CtxGet(last.before, env.ctx, y.src) = y.was) =>
    LET x == alias[last.assignee.id].was
    IN /\ pc # "error"
       /\ heap[x.n].items = Append(last.before[x.n].items, last.node.lit)

\* C9: once y is assigned from an attribute read o a whose slot is bound, o
\* an instance of a type, then until y is assigned again and while the
\* slot o.a is bound,
\* resolve applied to y's binding yields what resolve applied to the value
\* of o.a yields.
C9_AttributeAlias ==
  \A k \in Variables :
    LET oa == EvaluateValue(Object(alias[k].src, alias[k].attr), heap,
                            env.ctx).val
    IN (/\ alias[k].src # "" /\ alias[k].attr # ""
        /\ alias[k].was # Undef /\ oa # Undef
        /\ GetProp(heap, CtxGet(heap, env.ctx, alias[k].src), "_meta") # Undef) =>
         ResolveBinding(k).val = Resolve(oa, heap, env.ctx, Fuel(heap)).val

\* The name of the last statement's assignee as the error message has it.
TargetName ==
  IF last.assignee.tag = "scalar" THEN last.assignee.id
  ELSE last.assignee.id \o " " \o last.assignee.attr

\* C10: a list_assignment whose assignee reads as undefined (an unbound
\* name, or a path whose object is unbound or lacks the attribute) throws
\* "I do not know of a list called <target>." and leaves the heap as it
\* was: no reference made for the operand, no list changed, no binding
\* changed.
C10_NoSuchList ==
  (last.tag = "list_assignment" /\ steps >= 1
   /\ EvaluateValue(last.assignee, last.before, env.ctx).val = Undef) =>
    /\ pc = "error"
    /\ err = "I do not know of a list called " \o TargetName \o "."
    /\ heap = last.before

\* A list operation on a path whose object is bound and lacks the
\* attribute, with a variable for operand, threw.
C10_Witness ==
  /\ last.tag = "list_assignment" /\ last.assignee = Object("x", "a")
  /\ last.node.tag = "scalar"
  /\ CtxGet(last.before, env.ctx, "x") # Undef
  /\ err = "I do not know of a list called x a."

\* ------------------------------------------------------------ type registry

\* The statement sequences of SpecTypes: assignments to variables, to
\* attributes of bound and unbound variables, and to the identifier types
\* and its attributes, which name the registry the context holds.
TypesAssignees ==
  {Scalar("x"), Object("x", "a"), Scalar("types"), Object("types", "Widget"),
   Object("types", "generic")}
TypesValues == {Literal(IntV(5)), Scalar("x")}
TypesTargets == {Scalar("x"), Object("x", "a"), Object("y", "a"),
                 Object("types", "Widget")}
TypesTypes == {"list", "Widget"}

NextTypes ==
  \/ \E assignee \in TypesAssignees, valueNode \in TypesValues :
       ValueAssignment(assignee, valueNode)
  \/ \E assignee \in TypesTargets, T \in TypesTypes :
       TypeAssignment(assignee, T)
  \/ \E assignee \in {Scalar("x"), Object("types", "Widget")} :
       ListAssignment("add", Literal(IntV(6)), assignee)
  \/ Return

SpecTypes == Init /\ [][NextTypes]_vars

\* The constructor type_assignment is to call for type name T: types[T]
\* when the library registered T, types.generic otherwise.
RegisteredFn(T) ==
  IF GetProp(InitialHeap, PtrV(2), T) # Undef
  THEN InitialHeap[GetProp(InitialHeap, PtrV(2), T).n].fn
  ELSE "generic"

\* C11: a type_assignment of any type name T to a variable does not fail:
\* it stores a fresh value made by the constructor registered for T, or by
\* generic when none is, tagged _meta.type = T, and returns the same ctx
\* with ret = null.
C11_TypeAssignmentTotal ==
  (last.tag = "type_assignment" /\ last.assignee.tag = "scalar") =>
    /\ pc # "error"
    /\ env = [ctx |-> env0.ctx, ret |-> Null]
    /\ IsPtr(Slot) /\ Slot.n > Len(last.before)
    /\ heap[Slot.n] =
         [NativeConstruct(RegisteredFn(last.name)).cell
          EXCEPT !.attrs["_meta"] = MetaV(last.name)]

\* C20: no assignment changes the type registry the context holds under
\* types, and a type_assignment to a variable completes without error
\* after any sequence of assignments.
C20_RegistryUnchanged ==
  /\ CtxGet(heap, env.ctx, "types") = PtrV(2)
  /\ heap[2] = InitialHeap[2]
  /\ (last.tag = "type_assignment" /\ last.assignee.tag = "scalar")
       => pc # "error"

\* ----------------------------------------------------------------- resolve

\* The statement sequences of SpecResolve: objects and lists whose
\* attributes and items are literals and references, an attribute named
\* ref, and write, which applies resolve to its argument.
ResolveAssignees == {Scalar("y"), Object("x", "a"), Object("x", "ref")}
ResolveValues ==
  {Literal(IntV(5)), Scalar("x"), Scalar("y"), Scalar("z"), Object("x", "a")}
ResolveItems == {Literal(IntV(6)), Scalar("x"), Scalar("y")}
ResolveParams == {Scalar("x"), Scalar("y"), Scalar("z")}

NextResolve ==
  \/ \E assignee \in ResolveAssignees, valueNode \in ResolveValues :
       ValueAssignment(assignee, valueNode)
  \/ \E T \in {"list", "Widget"} :
       TypeAssignment(Scalar("x"), T)
  \/ \E itemNode \in ResolveItems, assignee \in {Scalar("x"), Scalar("z")} :
       ListAssignment("add", itemNode, assignee)
  \/ \E paramNode \in ResolveParams :
       Invocation("write", paramNode)
  \/ Return

SpecResolve == InitAlias /\ [][NextResolve]_vars

\* The last statement was write of a variable, and it returned: resolve was
\* applied to what the variable held, and ret is what resolve returned.
Wrote ==
  /\ last.tag = "invocation" /\ last.name = "write"
  /\ last.node.tag = "scalar" /\ pc = "running"

\* What the variable write was given held before the statement.
Written == CtxGet(last.before, env.ctx, last.node.id)

\* Two item sequences with the same contents: item by item the same value,
\* or two lists (each resolve makes its own copy of a list within a list).
SameItems(h1, items1, h2, items2) ==
  /\ Len(items1) = Len(items2)
  /\ \A i \in 1..Len(items1) :
       \/ items1[i] = items2[i]
       \/ /\ IsPtr(items1[i]) /\ h1[items1[i].n].kind = "IslaList"
          /\ IsPtr(items2[i]) /\ h2[items2[i].n].kind = "IslaList"

HoldsReference(k) == ResolveDispatch(heap, CtxGet(heap, env.ctx, k)) = "ref"

\* C13 as claimed: no stored reference points at a slot whose binding is
\* itself a reference.
C13_NoReferenceToReference ==
  \A k \in Variables :
    (HoldsReference(k)
     /\ GetProp(heap, CtxGet(heap, env.ctx, k), "ref").t = "string") =>
      ~HoldsReference(GetProp(heap, CtxGet(heap, env.ctx, k), "ref").s)

\* C13 as amended: a stored reference names the variable or the path it was
\* assigned from, whatever that slot holds, a reference included, until the
\* variable is assigned again.
C13_ReferenceNamesSlot ==
  \A k \in Variables :
    alias[k].src # "" =>
      /\ HoldsReference(k)
      /\ GetProp(heap, CtxGet(heap, env.ctx, k), "ref") =
           IF alias[k].attr = "" THEN StrV(alias[k].src)
           ELSE PathV(alias[k].src, alias[k].attr)

\* x := z; y := x ran: y's reference points at x, whose binding is a
\* reference to z.
C13_Witness ==
  /\ alias["y"].src = "x" /\ alias["y"].attr = ""
  /\ alias["x"].src = "z" /\ alias["x"].attr = ""
  /\ HoldsReference("x") /\ HoldsReference("y")

\* C14: no sequence of assignments makes a reference chain that leads back
\* to itself, so resolve terminates on the binding of every variable.
C14_ResolveTerminates ==
  \A k \in Variables : ResolveBinding(k).ok

\* The assignee of the last statement was bound, before it, to a number, a
\* string or an object that is neither a list nor a reference.
TargetIsNotAList ==
  LET held == EvaluateValue(last.assignee, last.before, env.ctx).val
  IN \/ held.t \in {"number", "string"}
     \/ /\ IsPtr(held) /\ last.before[held.n].kind = "Object"
        /\ ResolveDispatch(last.before, held) = "object"

\* C15: a list_assignment whose assignee is bound to something that is not
\* a list fails with the same "I do not know of a list called <target>."
\* as for an unbound target, and leaves every binding as it was.
C15_NotAList ==
  (last.tag = "list_assignment" /\ steps >= 1 /\ TargetIsNotAList) =>
    /\ pc = "error"
    /\ err = "I do not know of a list called " \o TargetName \o "."
    /\ SubSeq(heap, 1, Len(last.before)) = last.before

\* -------------------------------------------------- resolve: materializing

\* The value stored at the slot a reference names: ctx[name] for a name,
\* ctx[object][attribute] for a path.
Referent(r) ==
  IF r.t = "string" THEN CtxGet(heap, env.ctx, r.s)
  ELSE GetProp(heap, CtxGet(heap, env.ctx, r.s), r.s2)

\* Every reference the interpreter has stored, by name or by path, points
\* at a bound slot.
ReferencesBound ==
  \A p \in 1..Len(heap) :
    (heap[p].kind = "Object" /\ heap[p].attrs["ref"].t \in {"string", "array"})
      => Referent(heap[p].attrs["ref"]) # Undef

\* Value v holds no reference: neither v, nor an attribute or an item of v.
NoReferenceIn(h, v) ==
  /\ ResolveDispatch(h, v) # "ref"
  /\ IsPtr(v) =>
       /\ \A a \in Keys \ {"_meta"} : ResolveDispatch(h, h[v.n].attrs[a]) # "ref"
       /\ \A i \in 1..Len(h[v.n].items) :
            ResolveDispatch(h, h[v.n].items[i]) # "ref"

\* C16: when every stored reference, by name or by path, points at a bound
\* slot, what resolve returns for a binding holds no reference at any
\* depth, and a reference is replaced by the value stored at its referent.
C16_FullyMaterializes ==
  ReferencesBound =>
    \A k \in Variables :
      LET held == CtxGet(heap, env.ctx, k)
          r == ResolveBinding(k)
      IN r.ok =>
           /\ NoReferenceIn(r.heap, r.val)
           /\ (HoldsReference(k)
               /\ GetProp(heap, held, "ref").t \in {"string", "array"}
               /\ ~IsPtr(Referent(GetProp(heap, held, "ref")))) =>
                r.val = Referent(GetProp(heap, held, "ref"))

\* C17: resolve applied to an object of a type, whatever its attributes
\* are named, returns that same object, with _meta as it was and every
\* other attribute overwritten in place by its resolved form, so that the
\* stored attributes hold no reference any more.
C17_ObjectInPlace ==
  (Wrote /\ IsPtr(Written) /\ last.before[Written.n].kind = "Object"
   /\ last.before[Written.n].attrs["_meta"] # Undef) =>
    /\ env.ret = Written
    /\ heap[Written.n].attrs["_meta"] = last.before[Written.n].attrs["_meta"]
    /\ \A a \in Keys \ {"_meta"} :
         ResolveDispatch(heap, heap[Written.n].attrs[a]) # "ref"

\* ------------------------------------------------ assignment to a path

\* The last statement was a value_assignment or a type_assignment to a path
\* 'o a' with o unbound.
PathOfUnbound ==
  /\ last.tag \in {"value_assignment", "type_assignment"}
  /\ last.assignee.tag = "object"
  /\ CtxGet(last.before, env.ctx, last.assignee.id) = Undef

Callee == ResolveRef(StrV(last.name), last.before, env.ctx, Fuel(last.before))

\* C19: an invocation whose name leads, through a chain of references of
\* any length, to a function calls that function once, with the stored
\* value of the argument as it is (a reference stays a reference), and
\* returns the same ctx with ret = what the function returned, or null
\* when that is undefined.  So ret is never undefined after a statement,
\* and is null after an assignment.
C19_Invocation ==
  /\ (last.tag = "invocation" /\ Callee.ok /\ IsPtr(Callee.val)
      /\ Callee.heap[Callee.val.n].kind = "Function") =>
       LET stored == EvaluateValue(last.node, last.before, env.ctx).val
           call == CallNative(Callee.heap[Callee.val.n].fn, env, stored,
                              Callee.heap)
       IN /\ last.param = stored
          /\ call.err = "" =>
               /\ pc # "error"
               /\ env.ctx = env0.ctx
               /\ heap = call.heap
               /\ last.returnVal = call.ret
               /\ env.ret = IF call.ret = Undef THEN Null ELSE call.ret
  /\ (steps >= 1 /\ pc # "error") => env.ret # Undef
  /\ (IsAssignment(last) /\ pc # "error") => env.ret = Null

\* x is write; y is x; y 5 ran: the name called leads through two
\* references to write, and ret is what write returned.
C19_Witness ==
  /\ last.tag = "invocation" /\ last.name = "y" /\ pc = "running"
  /\ alias["y"].src = "x" /\ alias["x"].src = "write"
  /\ last.param = IntV(5) /\ env.ret = IntV(5)

====
